---- MODULE Spec2Model ----
(***************************************************************************)
(* CloudBakery: the offline SH baking pipeline of src/main.cpp together    *)
(* with the bake and validation compute kernels.                           *)
(*                                                                         *)
(* The model follows main(): the directory loop that builds                *)
(* d3d.tex_inputs, then the per-set loop that allocates the three          *)
(* accumulator textures, dispatches the bake kernel once per radiance      *)
(* sample, saves the accumulators and optionally runs the validation pass. *)
(* Every call on the device context is one step, so that the binding       *)
(* state between calls is visible.                                         *)
(*                                                                         *)
(* Abstractions.  File names are sequences of the tokens that "_"          *)
(* separates, plus the extension.  Floating point values are exact         *)
(* rationals <<num, den>>; unit vectors are kept in thousandths.  The      *)
(* phase function and the SH basis are integer stand-ins (their numeric    *)
(* values play no part in the properties checked here).                    *)
(***************************************************************************)
EXTENDS Integers, Sequences, FiniteSets, TLC

VARIABLES
    validation_dir,   \* args.validation_dir is non-empty
    visited,          \* directory entries enumerated so far
    tex_inputs,       \* d3d.tex_inputs : key -> InputTexSet
    log,              \* spdlog warnings and errors written so far
    pc,               \* position in main()
    todo,             \* keys the process loop has not reached yet
    begun,            \* keys the process loop has reached, in order
    key,              \* key of the set being processed
    si,               \* index of the next sample / next accumulator to save
    tex_sh_coeffs,    \* d3d.tex_sh_coeffs : the three accumulator textures
    valid_tex,        \* the validation texture of the current set
    cb_data,          \* the BakeCBData local of the current set
    common_buffer,    \* contents of d3d.common_buffer on the device
    cs_shader,        \* compute shader selected on the context
    cs_srv,           \* compute-stage shader resource slots t0..t3
    cs_uav,           \* compute-stage unordered access slots u0..u2
    dispatches,       \* every Dispatch issued, in order
    files,            \* files written to the output and validation directories
    exit_status       \* how the process ended

vars == <<validation_dir, visited, tex_inputs, log, pc, todo, begun, key, si,
          tex_sh_coeffs, valid_tex, cb_data, common_buffer, cs_shader,
          cs_srv, cs_uav, dispatches, files, exit_status>>

\* Number of directory entries a run enumerates at most.
MaxFiles == 5

NULL == "nullptr"

-----------------------------------------------------------------------------
(* Input directory                                                         *)

\* Decimal tokens the light-direction groups of color_file_re accept, with
\* the value RE2 parses from them.
DecimalValue ==
    [t \in {"0", "1", "2", "3", "4"} |->
        CASE t = "0" -> 0 [] t = "1" -> 1 [] t = "2" -> 2 [] t = "3" -> 3 [] t = "4" -> 4]

\* Files a directory may hold.  tokens/ext spell the name; load, width, height
\* and val describe the contents (val is the value of texel (0,0); texel (x,y)
\* holds val + x + 2y).
FileUniverse ==
    { [tokens |-> <<"a", "+x", "tr">>,          ext |-> ".dds", load |-> "ok",         width |-> 1, height |-> 1, val |-> 2],
      [tokens |-> <<"a", "+x", "0", "0", "1">>, ext |-> ".dds", load |-> "ok",         width |-> 1, height |-> 1, val |-> 1],
      [tokens |-> <<"a", "+x", "3", "4", "0">>, ext |-> ".dds", load |-> "ok",         width |-> 1, height |-> 1, val |-> 2],
      [tokens |-> <<"a", "+x", "1", "0", "0">>, ext |-> ".dds", load |-> "ok",         width |-> 2, height |-> 1, val |-> 3],
      [tokens |-> <<"a", "+x", "0", "1", "0">>, ext |-> ".dds", load |-> "not2d",      width |-> 1, height |-> 1, val |-> 1],
      [tokens |-> <<"b", "+z", "tr">>,          ext |-> ".dds", load |-> "ok",         width |-> 2, height |-> 1, val |-> 1],
      [tokens |-> <<"b", "+z", "1", "1", "1">>, ext |-> ".dds", load |-> "ok",         width |-> 2, height |-> 1, val |-> 1],
      [tokens |-> <<"b", "+z", "0", "1", "0">>, ext |-> ".dds", load |-> "unreadable", width |-> 2, height |-> 1, val |-> 1],
      [tokens |-> <<"b", "-z", "tr">>,          ext |-> ".dds", load |-> "ok",         width |-> 1, height |-> 1, val |-> 1],
      [tokens |-> <<"a", "+w", "tr">>,          ext |-> ".dds", load |-> "ok",         width |-> 1, height |-> 1, val |-> 1],
      [tokens |-> <<"notes">>,                  ext |-> ".txt", load |-> "unreadable", width |-> 0, height |-> 0, val |-> 0] }

RECURSIVE Join(_)
\* The tokens of a name joined with "_".
Join(toks) ==
    IF Len(toks) = 0 THEN ""
    ELSE IF Len(toks) = 1 THEN toks[1]
    ELSE toks[1] \o "_" \o Join(Tail(toks))

\* dir_entry.path().filename().string()
FileName(f) == Join(f.tokens) \o f.ext

\* The file of the directory that a loaded texture came from.
FileOf(name) == CHOOSE f \in FileUniverse : FileName(f) = name

-----------------------------------------------------------------------------
(* Catalog building                                                        *)

\* The face group ([+-][xyz]) of both regular expressions.
FaceGroup == {"+x", "-x", "+y", "-y", "+z", "-z"}

\* RE2::FullMatch(filename, tr_file_re, &identifier, &face_str)
TrMatch(f) ==
    /\ f.ext = ".dds"
    /\ Len(f.tokens) >= 3
    /\ f.tokens[Len(f.tokens)] = "tr"
    /\ f.tokens[Len(f.tokens) - 1] \in FaceGroup

\* RE2::FullMatch(filename, color_file_re, &identifier, &face_str, &x, &y, &z)
ColorMatch(f) ==
    /\ f.ext = ".dds"
    /\ Len(f.tokens) >= 5
    /\ \A i \in 0..2 : f.tokens[Len(f.tokens) - i] \in DOMAIN DecimalValue
    /\ f.tokens[Len(f.tokens) - 3] \in FaceGroup

\* The identifier and face_str groups of whichever expression matched.
Identifier(f) ==
    IF TrMatch(f) THEN Join(SubSeq(f.tokens, 1, Len(f.tokens) - 2))
    ELSE Join(SubSeq(f.tokens, 1, Len(f.tokens) - 4))

FaceStr(f) ==
    IF TrMatch(f) THEN f.tokens[Len(f.tokens) - 1]
    ELSE f.tokens[Len(f.tokens) - 3]

\* The three direction groups of color_file_re, as parsed.
ParsedDirection(f) ==
    [i \in 1..3 |-> DecimalValue[f.tokens[Len(f.tokens) - 3 + i]]]

\* std::format("{}_{}", identifier, face_str)
KeyOf(f) == Identifier(f) \o "_" \o FaceStr(f)

\* KEYMAP of faceStrToUint.
KEYMAP == [s \in {"+x", "-x", "+y", "-y", "+z"} |->
             CASE s = "+x" -> 0 [] s = "-x" -> 1 [] s = "+y" -> 2
               [] s = "-y" -> 3 [] s = "+z" -> 4]

\* faceStrToUint: KEYMAP.at(str) throws std::out_of_range on any other string.
FaceStrThrows(str) == str \notin DOMAIN KEYMAP

faceStrToUint(str) == KEYMAP[str]

Abs(n) == IF n < 0 THEN -n ELSE n

\* One component of XMVector3Normalize, in thousandths: 1000 * |c| / sqrt(len2)
\* rounded to the nearest integer, with the sign of c.  A zero vector
\* normalizes to zero.
NormalizeComponent(c, len2) ==
    IF len2 = 0 THEN 0
    ELSE LET mag == CHOOSE r \in 0..1000 :
                      /\ (r = 0 \/ (2 * r - 1) * (2 * r - 1) * len2 <= 4000000 * c * c)
                      /\ 4000000 * c * c < (2 * r + 1) * (2 * r + 1) * len2
         IN IF c < 0 THEN -mag ELSE mag

\* XMStoreFloat3(XMVector3Normalize(XMLoadFloat3(v)))
XMVector3Normalize(v) ==
    LET len2 == v[1] * v[1] + v[2] * v[2] + v[3] * v[3]
    IN [i \in 1..3 |-> NormalizeComponent(v[i], len2)]

\* A default-constructed InputTexture.
DefaultInputTexture ==
    [light_direction |-> <<1000, 0, 0>>, width |-> 0, height |-> 0, srv |-> NULL]

\* A value-initialized InputTexSet.
DefaultInputTexSet ==
    [face |-> 0, tr |-> DefaultInputTexture, colors |-> <<>>]

\* The InputTexture the loop body has built when it reaches the insertion:
\* direction as parsed (not yet normalized), size from the texture desc.
LoadedTexture(f) ==
    [light_direction |-> IF TrMatch(f) THEN DefaultInputTexture.light_direction
                         ELSE [i \in 1..3 |-> 1000 * ParsedDirection(f)[i]],
     width  |-> f.width,
     height |-> f.height,
     srv    |-> FileName(f)]

\* The texture as stored for a radiance sample: direction normalized.
ColorTexture(f) ==
    [LoadedTexture(f) EXCEPT !.light_direction = XMVector3Normalize(ParsedDirection(f))]

\* d3d.tex_inputs after lines 352-361 (before the face is assigned).
Inserted(cat, f) ==
    LET k    == KeyOf(f)
        base == IF k \in DOMAIN cat THEN cat[k] ELSE DefaultInputTexSet
        set  == IF TrMatch(f)
                THEN [base EXCEPT !.tr = LoadedTexture(f)]
                ELSE [base EXCEPT !.colors = Append(@, ColorTexture(f))]
    IN [x \in DOMAIN cat \cup {k} |-> IF x = k THEN set ELSE cat[x]]

\* d3d.tex_inputs[key].face = faceStrToUint(face_str)
WithFace(cat, f) ==
    [cat EXCEPT ![KeyOf(f)].face = faceStrToUint(FaceStr(f))]

Warn(what, subject) == [level |-> "warn", what |-> what, subject |-> subject]

-----------------------------------------------------------------------------
(* Rationals: a float value is kept exactly as <<num, den>>, den > 0.      *)

RECURSIVE GCD(_, _)
GCD(a, b) == IF b = 0 THEN a ELSE GCD(b, a % b)

Rat(n, d) ==
    LET g == GCD(Abs(n), Abs(d))
    IN IF n = 0 THEN <<0, 1>>
       ELSE IF d < 0 THEN <<-(n \div g), (-d) \div g>> ELSE <<n \div g, d \div g>>

RAdd(a, b) == Rat(a[1] * b[2] + b[1] * a[2], a[2] * b[2])

RMul(a, b) == Rat(a[1] * b[1], a[2] * b[2])

RZero == <<0, 1>>

-----------------------------------------------------------------------------
(* Device state                                                            *)

\* A Texture that initTex has not filled in yet.
NoTexture == [id |-> NULL, kind |-> "none", width |-> 0, height |-> 0, px |-> <<>>]

Texels(width, height) == (0..(width - 1)) \X (0..(height - 1))

\* initTex followed by ClearUnorderedAccessViewFloat with {0, 0, 0, 0}: a new
\* single-slice texture whose every texel is zero.
ClearedTexture(id, width, height) ==
    [id |-> id, kind |-> "rgba", width |-> width, height |-> height,
     px |-> [t \in Texels(width, height) |-> <<RZero, RZero, RZero>>]]

\* initTex for the validation image (R32_FLOAT, contents not initialized).
NewValidationTexture(id, width, height) ==
    [id |-> id, kind |-> "r", width |-> width, height |-> height,
     px |-> [t \in Texels(width, height) |-> NULL]]

SrvSlots == 0..3
UavSlots == 0..2

NoSrvs == [s \in SrvSlots |-> NULL]
NoUavs == [s \in UavSlots |-> NULL]

\* CSSetShaderResources(0, n, views): the runtime binds NULL in place of a
\* view whose resource is currently bound for output.
SetShaderResources(srv, uav, views) ==
    [s \in SrvSlots |->
        IF s + 1 \in DOMAIN views
        THEN IF views[s + 1] # NULL /\ \E u \in UavSlots : uav[u] = views[s + 1]
             THEN NULL ELSE views[s + 1]
        ELSE srv[s]]

\* CSSetUnorderedAccessViews(0, n, views, nullptr): the output slots.
SetUnorderedAccessViews(uav, views) ==
    [u \in UavSlots |-> IF u + 1 \in DOMAIN views THEN views[u + 1] ELSE uav[u]]

\* ... and its effect on the input slots: the runtime unbinds every input
\* view of a resource that becomes bound for output.
SrvsAfterUavBind(srv, views) ==
    [s \in SrvSlots |->
        IF srv[s] # NULL /\ \E i \in DOMAIN views : views[i] = srv[s]
        THEN NULL ELSE srv[s]]

\* Thread groups of a dispatch along one axis: (n + 7) / 8.
Groups(n) == (n + 7) \div 8

\* A BakeCBData whose weight is not divided by the sample count.
NewCBDataUnitWeight(set) ==
    [light_dir |-> <<0, 0, 0>>,
     weight    |-> <<1, 1>>,
     face      |-> set.face]

\* A value-initialized BakeCBData with the designated members of line 429.
NewCBData(set) ==
    [light_dir |-> <<0, 0, 0>>,
     weight    |-> <<1, Len(set.colors)>>,
     face      |-> set.face]

\* The constant buffer as CreateBuffer leaves it: no initial data.
UnwrittenBuffer == [written |-> FALSE, data |-> NewCBData(DefaultInputTexSet)]

\* What a kernel can find in a constant buffer that CreateBuffer (lines 370-376,
\* no initial data) has made and UpdateSubresource has never filled: the
\* contents are indeterminate, here either zeros or some other direction.
UninitializedCBData ==
    {[NewCBData(DefaultInputTexSet) EXCEPT !.light_dir = d] :
        d \in {<<0, 0, 0>>, <<0, 0, 1000>>}}

\* The contents of a constant buffer as a dispatch reads them.
BufferContents(buffer) ==
    IF buffer.written THEN {buffer.data} ELSE UninitializedCBData

-----------------------------------------------------------------------------
(* main(): reading the directory                                           *)

Init ==
    /\ validation_dir \in BOOLEAN
    /\ visited = {}
    /\ tex_inputs = [k \in {} |-> DefaultInputTexSet]
    /\ log = {}
    /\ pc = "read"
    /\ todo = {}
    /\ begun = <<>>
    /\ key = NULL
    /\ si = 0
    /\ tex_sh_coeffs = [i \in 0..2 |-> NoTexture]
    /\ valid_tex = NoTexture
    /\ cb_data = NewCBData(DefaultInputTexSet)
    /\ common_buffer = UnwrittenBuffer
    /\ cs_shader = NULL
    /\ cs_srv = NoSrvs
    /\ cs_uav = NoUavs
    /\ dispatches = <<>>
    /\ files = [p \in {} |-> NULL]
    /\ exit_status = "running"

\* How one iteration of the directory loop (lines 314-365) ends for file f.
ReadOutcome(f) ==
    IF f.ext # ".dds" THEN "skip_ext"
    ELSE IF ~TrMatch(f) /\ ~ColorMatch(f) THEN "no_match"
    ELSE IF f.load = "unreadable" THEN "unreadable"
    ELSE IF f.load = "not2d" THEN "not2d"
    ELSE IF FaceStrThrows(FaceStr(f)) THEN "throw"
    ELSE "loaded"

\* One iteration of the directory loop, for the next entry f.
ReadFile(f) ==
    /\ pc = "read"
    /\ Cardinality(visited) < MaxFiles
    /\ f \notin visited
    /\ visited' = visited \cup {f}
    /\ LET out == ReadOutcome(f) IN
        /\ tex_inputs' = CASE out = "loaded" -> WithFace(Inserted(tex_inputs, f), f)
                           [] out = "throw"  -> Inserted(tex_inputs, f)
                           [] OTHER          -> tex_inputs
        /\ log' = CASE out = "no_match"   -> log \cup {Warn("no_match", FileName(f))}
                    [] out = "unreadable" -> log \cup {Warn("unreadable", FileName(f))}
                    [] out = "not2d"      -> log \cup {Warn("not2d", FileName(f))}
                    [] OTHER              -> log
        /\ pc' = IF out = "throw" THEN "exit" ELSE "read"
        /\ exit_status' = IF out = "throw" THEN "terminated" ELSE exit_status
    /\ UNCHANGED <<validation_dir, todo, begun, key, si, tex_sh_coeffs, valid_tex, cb_data,
                   common_buffer, cs_shader, cs_srv, cs_uav, dispatches, files>>

\* Lines 368-402, reached when the directory is exhausted: create the
\* constant buffer, compile both kernels, bind the buffer and select bake_cs.
\* ok is what CreateBuffer and compileShader report.
Setup(ok) ==
    /\ pc = "read"
    /\ IF ok
       THEN /\ pc' = "process"
            /\ todo' = DOMAIN tex_inputs
            /\ cs_shader' = "bake_cs"
            /\ UNCHANGED exit_status
       ELSE /\ pc' = "exit"
            /\ exit_status' = "failed"
            /\ UNCHANGED <<todo, cs_shader>>
    /\ UNCHANGED <<validation_dir, visited, tex_inputs, log, begun, key, si, tex_sh_coeffs,
                   valid_tex, cb_data, common_buffer, cs_srv, cs_uav, dispatches, files>>

-----------------------------------------------------------------------------
(* The compute kernels                                                     *)

\* .ArraySize of every texture initTex creates.
ArraySize == 1

\* Texel t of the image file behind an input view; reads outside the image,
\* or through an empty slot, give zero.
InputTexel(name, t) ==
    IF name = NULL THEN 0
    ELSE LET f == FileOf(name)
         IN IF t[1] < f.width /\ t[2] < f.height THEN f.val + t[1] + 2 * t[2] ELSE 0

\* viewDirFromFace at the face centre, in thousandths (the tan() terms of the
\* off-centre texels are left out).
viewDirFromFace(face) ==
    CASE face = 0 -> <<1000, 0, 0>>
      [] face = 1 -> <<-1000, 0, 0>>
      [] face = 2 -> <<0, 1000, 0>>
      [] face = 3 -> <<0, -1000, 0>>
      [] face = 4 -> <<0, 0, 1000>>
      [] OTHER    -> <<1000, 0, 0>>

Dot(a, b) == a[1] * b[1] + a[2] * b[2] + a[3] * b[3]

\* Phase::MsHeuristic(u, tr): an integer stand-in that is positive and
\* depends on both arguments.
MsHeuristic(u, tr) == 1 + tr + (IF u > 0 THEN 1 ELSE 0)

\* The nine L2 basis functions at direction d (thousandths), without their
\* normalization constants.
BasisL2(k, d) ==
    CASE k = 0 -> 1000
      [] k = 1 -> d[2]
      [] k = 2 -> d[3]
      [] k = 3 -> d[1]
      [] k = 4 -> (d[1] * d[2]) \div 1000
      [] k = 5 -> (d[2] * d[3]) \div 1000
      [] k = 6 -> (3 * d[3] * d[3] - 1000000) \div 1000
      [] k = 7 -> (d[1] * d[3]) \div 1000
      [] k = 8 -> (d[1] * d[1] - d[2] * d[2]) \div 1000

\* SH::ProjectOntoL2(dir, value): coefficient k.
ProjectOntoL2(k, d, value) == RMul(<<BasisL2(k, d), 1>>, value)

\* The bake kernel up to the projection: sh.C[k] for thread t, in units of pi.
BakeCoeff(k, t, srv, cb) ==
    LET color    == InputTexel(srv[0], t)
        view_dir == viewDirFromFace(cb.face)
        u        == -Dot(view_dir, cb.light_dir)
        phase    == MsHeuristic(u, InputTexel(srv[1], t))
        value    == RMul(RMul(<<color, phase>>, cb.weight), <<4, 1>>)
    IN ProjectOntoL2(k, cb.light_dir, value)

\* The resource that receives the bake kernel's store to slice `layer` of
\* RWTexSHCoeffs (register u0): the view in slot u0 when it has that slice;
\* a store past the last slice is discarded.
BakeTarget(uav, layer) == IF layer < ArraySize THEN uav[0] ELSE NULL

\* Texture tex after one dispatch of the bake kernel.  RWTexSHCoeffs is
\* declared as a texture array and the view in u0 is a plain 2D texture:
\* `lands` says whether the device honours the stores to slice 0.
BakeKernel(tex, srv, uav, cb, groups, lands) ==
    IF tex.id # NULL /\ tex.kind = "rgba" /\ lands
          /\ \E layer \in 0..2 : BakeTarget(uav, layer) = tex.id
    THEN [tex EXCEPT !.px =
            [t \in DOMAIN tex.px |->
                IF t[1] < 8 * groups[1] /\ t[2] < 8 * groups[2]
                THEN LET layer == CHOOSE l \in 0..2 : BakeTarget(uav, l) = tex.id
                     IN [c \in 1..3 |->
                           RAdd(tex.px[t][c], BakeCoeff(3 * layer + c - 1, t, srv, cb))]
                ELSE tex.px[t]]]
    ELSE tex

\* Texel t of the accumulator behind input slot s, as the validation kernel
\* loads it.
CoeffTexel(texs, id, t) ==
    IF \E i \in 0..2 : texs[i].id = id /\ id # NULL /\ t \in DOMAIN texs[i].px
    THEN texs[CHOOSE i \in 0..2 : texs[i].id = id].px[t]
    ELSE <<RZero, RZero, RZero>>

RECURSIVE EvaluateFrom(_, _, _, _, _)
\* SH::Evaluate(sh, dir): the sum over k of sh.C[k] * basis k, from k up.
EvaluateFrom(k, texs, srv, t, d) ==
    IF k > 8 THEN RZero
    ELSE RAdd(RMul(CoeffTexel(texs, srv[k \div 3], t)[(k % 3) + 1], <<BasisL2(k, d), 1>>),
              EvaluateFrom(k + 1, texs, srv, t, d))

\* Texture tex after one dispatch of the validation kernel (RWTexOut is u0).
ValidationKernel(tex, texs, srv, uav, cb, groups) ==
    IF tex.id # NULL /\ uav[0] = tex.id
    THEN [tex EXCEPT !.px =
            [t \in DOMAIN tex.px |->
                IF t[1] < 8 * groups[1] /\ t[2] < 8 * groups[2]
                THEN IF tex.kind = "r"
                     THEN EvaluateFrom(0, texs, srv, t, cb.light_dir)
                     ELSE [tex.px[t] EXCEPT ![1] = EvaluateFrom(0, texs, srv, t, cb.light_dir)]
                ELSE tex.px[t]]]
    ELSE tex

\* Texture tex after Dispatch(groups) with the selected shader and bindings.
Dispatched(tex, shader, texs, srv, uav, cb, groups, lands) ==
    CASE shader = "bake_cs"       -> BakeKernel(tex, srv, uav, cb, groups, lands)
      [] shader = "validation_cs" -> ValidationKernel(tex, texs, srv, uav, cb, groups)
      [] OTHER                    -> tex

\* The record kept of a Dispatch call.
DispatchRecord(groups, data) ==
    [at |-> pc, shader |-> cs_shader, key |-> key, sample |-> si, srv |-> cs_srv,
     uav |-> cs_uav, cb |-> common_buffer, read |-> data, groups |-> groups]

-----------------------------------------------------------------------------
(* main(): processing the sets                                             *)

\* The presence check left out.
NoTransmittanceCheck(set) == TRUE

\* tex_set.tr.srv != nullptr
HasTransmittance(set) == set.tr.srv # NULL

\* The size check with && in place of ||.
SizeMismatchBoth(set) ==
    \E i \in DOMAIN set.colors :
        (set.colors[i].width # set.tr.width) /\ (set.colors[i].height # set.tr.height)

\* The any_of of line 417 over tex_set.colors.
SizeMismatch(set) ==
    \E i \in DOMAIN set.colors :
        (set.colors[i].width # set.tr.width) \/ (set.colors[i].height # set.tr.height)

CurrentSet == tex_inputs[key]

\* "{:.2f}" of a value kept in thousandths.
Fmt2(v) ==
    LET h == (Abs(v) + 5) \div 10
        d == h % 100
    IN (IF v < 0 THEN "-" ELSE "") \o ToString(h \div 100) \o "."
          \o ToString(d \div 10) \o ToString(d % 10)

\* The accumulator path without the index argument.
ShPathNoIndex(k, i) == "output/" \o k \o "_sh" \o ".dds"

\* args.out_dir / std::format("{}_sh{}.dds", key, i)
ShPath(k, i) == "output/" \o k \o "_sh" \o ToString(i) \o ".dds"

\* args.validation_dir / std::format("{}_{:.2f}_{:.2f}_{:.2f}_re.dds", key, x, y, z)
RePath(k, d) ==
    "validation/" \o k \o "_" \o Fmt2(d[1]) \o "_" \o Fmt2(d[2]) \o "_" \o Fmt2(d[3])
        \o "_re.dds"

\* The stages of saveTextureToDDS that can fail.
SaveOutcomes(compressed) ==
    IF compressed THEN {"ok", "capture", "compress", "save"} ELSE {"ok", "capture", "save"}

\* A file on disk: the captured image, and the set it was written for.
FileOnDisk(k, tex, compressed) ==
    [key |-> k, image |-> tex.id, format |-> IF compressed THEN "BC6H_SF16" ELSE tex.kind,
     width |-> tex.width, height |-> tex.height, px |-> tex.px]

\* The file system after saveTextureToDDS(tex, path, compressed), called for
\* set k, ended with `outcome`: only a save that passed every stage leaves a
\* file.
Saved(fs, k, tex, path, compressed, outcome) ==
    IF outcome = "ok"
    THEN [p \in DOMAIN fs \cup {path} |->
            IF p = path THEN FileOnDisk(k, tex, compressed) ELSE fs[p]]
    ELSE fs

Error(what, subject) == [level |-> "error", what |-> what, subject |-> subject]

\* The loop head of line 405 with both precondition checks (lines 406-420).
BeginSet(k) ==
    /\ pc = "process"
    /\ k \in todo
    /\ todo' = todo \ {k}
    /\ begun' = Append(begun, k)
    /\ key' = k
    /\ si' = 0
    /\ IF ~HasTransmittance(tex_inputs[k])
       THEN /\ log' = log \cup {Warn("no_transmittance", k)}
            /\ pc' = "process"
       ELSE IF SizeMismatch(tex_inputs[k])
       THEN /\ log' = log \cup {Warn("sizes", k)}
            /\ pc' = "process"
       ELSE /\ log' = log
            /\ pc' = "init_sh"
    /\ UNCHANGED <<validation_dir, visited, tex_inputs, tex_sh_coeffs, valid_tex, cb_data,
                   common_buffer, cs_shader, cs_srv, cs_uav, dispatches, files, exit_status>>

\* The loop of line 405 is exhausted: return S_OK.
Finish ==
    /\ pc = "process"
    /\ todo = {}
    /\ pc' = "exit"
    /\ exit_status' = "S_OK"
    /\ UNCHANGED <<validation_dir, visited, tex_inputs, log, todo, begun, key, si, tex_sh_coeffs,
                   valid_tex, cb_data, common_buffer, cs_shader, cs_srv, cs_uav,
                   dispatches, files>>

\* A failure handled like a rejected set: log and go on with the next set.
SkipSetOnFailure ==
    /\ pc' = "process"
    /\ exit_status' = exit_status

\* An exception leaves main(): the process is terminated.
Terminate ==
    /\ pc' = "exit"
    /\ exit_status' = "terminated"

\* Lines 423-425 for accumulator si; ok is what the three calls under
\* ThrowIfFailed in initTex report.
InitSh(ok) ==
    /\ pc = "init_sh"
    /\ IF ok
       THEN /\ tex_sh_coeffs' =
                [tex_sh_coeffs EXCEPT ![si] =
                    ClearedTexture("sh" \o ToString(si) \o ":" \o key,
                                   CurrentSet.tr.width, CurrentSet.tr.height)]
            /\ si' = si + 1
            /\ pc' = IF si = 2 THEN "set_bake" ELSE "init_sh"
            /\ UNCHANGED exit_status
       ELSE /\ Terminate
            /\ UNCHANGED <<tex_sh_coeffs, si>>
    /\ UNCHANGED <<validation_dir, visited, tex_inputs, log, todo, begun, key, valid_tex, cb_data,
                   common_buffer, cs_shader, cs_srv, cs_uav, dispatches, files>>

\* Where the sample loop goes once sample n is done (n = 0: before the first).
AfterSample(n) == IF n < Len(CurrentSet.colors) THEN "update_cb" ELSE "save"

\* The per-set kernel selection left out: only the selection of line 401 remains.
SetBakeKeepShader ==
    /\ pc = "set_bake"
    /\ cs_shader' = cs_shader
    /\ cb_data' = NewCBData(CurrentSet)
    /\ pc' = AfterSample(0)
    /\ si' = IF AfterSample(0) = "save" THEN 0 ELSE 1
    /\ UNCHANGED <<validation_dir, visited, tex_inputs, log, todo, begun, key, tex_sh_coeffs,
                   valid_tex, common_buffer, cs_srv, cs_uav, dispatches, files, exit_status>>

\* Lines 427-432: select the bake kernel, build cb_data.
SetBake ==
    /\ pc = "set_bake"
    /\ cs_shader' = "bake_cs"
    /\ cb_data' = NewCBData(CurrentSet)
    /\ pc' = AfterSample(0)
    /\ si' = IF AfterSample(0) = "save" THEN 0 ELSE 1
    /\ UNCHANGED <<validation_dir, visited, tex_inputs, log, todo, begun, key, tex_sh_coeffs,
                   valid_tex, common_buffer, cs_srv, cs_uav, dispatches, files, exit_status>>

\* The buffer updated before the sample's direction is stored in cb_data.
UpdateCBStale ==
    /\ pc = "update_cb"
    /\ cb_data' = [cb_data EXCEPT !.light_dir = CurrentSet.colors[si].light_direction]
    /\ common_buffer' = [written |-> TRUE, data |-> cb_data]
    /\ pc' = "bind_srv"
    /\ UNCHANGED <<validation_dir, visited, tex_inputs, log, todo, begun, key, si, tex_sh_coeffs,
                   valid_tex, cs_shader, cs_srv, cs_uav, dispatches, files, exit_status>>

\* Lines 436-437: the sample's direction goes into cb_data and the buffer.
UpdateCB ==
    /\ pc = "update_cb"
    /\ cb_data' = [cb_data EXCEPT !.light_dir = CurrentSet.colors[si].light_direction]
    /\ common_buffer' = [written |-> TRUE, data |-> cb_data']
    /\ pc' = "bind_srv"
    /\ UNCHANGED <<validation_dir, visited, tex_inputs, log, todo, begun, key, si, tex_sh_coeffs,
                   valid_tex, cs_shader, cs_srv, cs_uav, dispatches, files, exit_status>>

\* The views of line 439 and of line 445.
BakeSrvs == <<CurrentSet.colors[si].srv, CurrentSet.tr.srv>>

BakeUavs == <<tex_sh_coeffs[0].id, tex_sh_coeffs[1].id, tex_sh_coeffs[2].id>>

\* Line 443.
BindSrv ==
    /\ pc = "bind_srv"
    /\ cs_srv' = SetShaderResources(cs_srv, cs_uav, BakeSrvs)
    /\ pc' = "bind_uav"
    /\ UNCHANGED <<validation_dir, visited, tex_inputs, log, todo, begun, key, si, tex_sh_coeffs,
                   valid_tex, cb_data, common_buffer, cs_shader, cs_uav, dispatches,
                   files, exit_status>>

\* Line 446.
BindUav ==
    /\ pc = "bind_uav"
    /\ cs_uav' = SetUnorderedAccessViews(cs_uav, BakeUavs)
    /\ cs_srv' = SrvsAfterUavBind(cs_srv, BakeUavs)
    /\ pc' = "dispatch"
    /\ UNCHANGED <<validation_dir, visited, tex_inputs, log, todo, begun, key, si, tex_sh_coeffs,
                   valid_tex, cb_data, common_buffer, cs_shader, dispatches, files,
                   exit_status>>

\* Thread groups of lines 448 and 477.
SetGroups == <<Groups(CurrentSet.tr.width), Groups(CurrentSet.tr.height), 1>>

\* The effect of a Dispatch call on every writable texture.
RunDispatch(lands) ==
    \E data \in BufferContents(common_buffer) :
        /\ tex_sh_coeffs' =
              [i \in 0..2 |-> Dispatched(tex_sh_coeffs[i], cs_shader, tex_sh_coeffs, cs_srv,
                                         cs_uav, data, SetGroups, lands)]
        /\ valid_tex' = Dispatched(valid_tex, cs_shader, tex_sh_coeffs, cs_srv, cs_uav,
                                   data, SetGroups, lands)
        /\ dispatches' = Append(dispatches, DispatchRecord(SetGroups, data))

\* Line 448.
Dispatch(lands) ==
    /\ pc = "dispatch"
    /\ RunDispatch(lands)
    /\ pc' = "clear_srv"
    /\ UNCHANGED <<validation_dir, visited, tex_inputs, log, todo, begun, key, si, cb_data,
                   common_buffer, cs_shader, cs_srv, cs_uav, files, exit_status>>

\* Lines 451-452.
ClearSrv ==
    /\ pc = "clear_srv"
    /\ cs_srv' = SetShaderResources(cs_srv, cs_uav, <<NULL, NULL>>)
    /\ pc' = "clear_uav"
    /\ UNCHANGED <<validation_dir, visited, tex_inputs, log, todo, begun, key, si, tex_sh_coeffs,
                   valid_tex, cb_data, common_buffer, cs_shader, cs_uav, dispatches,
                   files, exit_status>>

\* The output views left as they were bound.
KeptBakeUavs == BakeUavs

\* The views of line 453.
ClearedBakeUavs == <<NULL, NULL, NULL>>

\* Lines 453-454, then on to the next sample or to the save loop.
ClearUav ==
    /\ pc = "clear_uav"
    /\ cs_uav' = SetUnorderedAccessViews(cs_uav, ClearedBakeUavs)
    /\ pc' = AfterSample(si)
    /\ si' = IF AfterSample(si) = "save" THEN 0 ELSE si + 1
    /\ UNCHANGED <<validation_dir, visited, tex_inputs, log, todo, begun, key, tex_sh_coeffs,
                   valid_tex, cb_data, common_buffer, cs_shader, cs_srv, dispatches,
                   files, exit_status>>

\* Lines 458-460 for accumulator si.
Save(outcome) ==
    /\ pc = "save"
    /\ outcome \in SaveOutcomes(TRUE)
    /\ files' = Saved(files, key, tex_sh_coeffs[si], ShPath(key, si), TRUE, outcome)
    /\ IF outcome = "ok"
       THEN /\ si' = IF si = 2 THEN 0 ELSE si + 1
            /\ pc' = IF si < 2 THEN "save"
                     ELSE IF validation_dir THEN "valid_init" ELSE "process"
            /\ UNCHANGED <<log, exit_status>>
       ELSE /\ log' = log \cup {Error(outcome, "")}
            /\ Terminate
            /\ UNCHANGED si
    /\ UNCHANGED <<validation_dir, visited, tex_inputs, todo, begun, key, tex_sh_coeffs, valid_tex,
                   cb_data, common_buffer, cs_shader, cs_srv, cs_uav, dispatches>>

-----------------------------------------------------------------------------
(* main(): the validation pass                                             *)

\* Line 464; ok is what the calls under ThrowIfFailed in initTex report.
ValidInit(ok) ==
    /\ pc = "valid_init"
    /\ IF ok
       THEN /\ valid_tex' = NewValidationTexture("valid:" \o key, CurrentSet.tr.width,
                                                 CurrentSet.tr.height)
            /\ pc' = "valid_bind_uav"
            /\ UNCHANGED exit_status
       ELSE /\ Terminate
            /\ UNCHANGED valid_tex
    /\ UNCHANGED <<validation_dir, visited, tex_inputs, log, todo, begun, key, si, tex_sh_coeffs,
                   cb_data, common_buffer, cs_shader, cs_srv, cs_uav, dispatches, files>>

\* The view of line 465 and the views of line 468.
ValidationUavs == <<valid_tex.id>>

ValidationSrvs ==
    <<tex_sh_coeffs[0].id, tex_sh_coeffs[1].id, tex_sh_coeffs[2].id, CurrentSet.tr.srv>>

\* Line 466.
ValidBindUav ==
    /\ pc = "valid_bind_uav"
    /\ cs_uav' = SetUnorderedAccessViews(cs_uav, ValidationUavs)
    /\ cs_srv' = SrvsAfterUavBind(cs_srv, ValidationUavs)
    /\ pc' = "valid_bind_srv"
    /\ UNCHANGED <<validation_dir, visited, tex_inputs, log, todo, begun, key, si, tex_sh_coeffs,
                   valid_tex, cb_data, common_buffer, cs_shader, dispatches, files,
                   exit_status>>

\* Line 474.
ValidBindSrv ==
    /\ pc = "valid_bind_srv"
    /\ cs_srv' = SetShaderResources(cs_srv, cs_uav, ValidationSrvs)
    /\ pc' = "valid_set_shader"
    /\ UNCHANGED <<validation_dir, visited, tex_inputs, log, todo, begun, key, si, tex_sh_coeffs,
                   valid_tex, cb_data, common_buffer, cs_shader, cs_uav, dispatches,
                   files, exit_status>>

\* Line 476.
ValidSetShader ==
    /\ pc = "valid_set_shader"
    /\ cs_shader' = "validation_cs"
    /\ pc' = "valid_dispatch"
    /\ UNCHANGED <<validation_dir, visited, tex_inputs, log, todo, begun, key, si, tex_sh_coeffs,
                   valid_tex, cb_data, common_buffer, cs_srv, cs_uav, dispatches, files,
                   exit_status>>

\* Line 477.
ValidDispatch ==
    /\ pc = "valid_dispatch"
    /\ RunDispatch(TRUE)
    /\ pc' = "valid_clear_uav"
    /\ UNCHANGED <<validation_dir, visited, tex_inputs, log, todo, begun, key, si, cb_data,
                   common_buffer, cs_shader, cs_srv, cs_uav, files, exit_status>>

\* Lines 480-481.
ValidClearUav ==
    /\ pc = "valid_clear_uav"
    /\ cs_uav' = SetUnorderedAccessViews(cs_uav, <<NULL>>)
    /\ pc' = "valid_clear_srv"
    /\ UNCHANGED <<validation_dir, visited, tex_inputs, log, todo, begun, key, si, tex_sh_coeffs,
                   valid_tex, cb_data, common_buffer, cs_shader, cs_srv, dispatches,
                   files, exit_status>>

\* Lines 482-483.
ValidClearSrv ==
    /\ pc = "valid_clear_srv"
    /\ cs_srv' = SetShaderResources(cs_srv, cs_uav, <<NULL, NULL, NULL, NULL>>)
    /\ pc' = "valid_save"
    /\ UNCHANGED <<validation_dir, visited, tex_inputs, log, todo, begun, key, si, tex_sh_coeffs,
                   valid_tex, cb_data, common_buffer, cs_shader, cs_uav, dispatches,
                   files, exit_status>>

\* Lines 486-490: save the reconstruction; valid_tex goes out of scope.
ValidSave(outcome) ==
    /\ pc = "valid_save"
    /\ outcome \in SaveOutcomes(FALSE)
    /\ files' = Saved(files, key, valid_tex, RePath(key, cb_data.light_dir), FALSE, outcome)
    /\ IF outcome = "ok"
       THEN /\ pc' = "process"
            /\ valid_tex' = NoTexture
            /\ UNCHANGED <<log, exit_status>>
       ELSE /\ log' = log \cup {Error(outcome, "")}
            /\ Terminate
            /\ UNCHANGED valid_tex
    /\ UNCHANGED <<validation_dir, visited, tex_inputs, todo, begun, key, si, tex_sh_coeffs,
                   cb_data, common_buffer, cs_shader, cs_srv, cs_uav, dispatches>>

-----------------------------------------------------------------------------

Next ==
    \/ \E f \in FileUniverse : ReadFile(f)
    \/ \E ok \in BOOLEAN : Setup(ok)
    \/ \E k \in todo : BeginSet(k)
    \/ Finish
    \/ \E ok \in BOOLEAN : InitSh(ok)
    \/ SetBake
    \/ UpdateCB
    \/ BindSrv
    \/ BindUav
    \/ \E lands \in BOOLEAN : Dispatch(lands)
    \/ ClearSrv
    \/ ClearUav
    \/ \E outcome \in SaveOutcomes(TRUE) : Save(outcome)
    \/ \E ok \in BOOLEAN : ValidInit(ok)
    \/ ValidBindUav
    \/ ValidBindSrv
    \/ ValidSetShader
    \/ ValidDispatch
    \/ ValidClearUav
    \/ ValidClearSrv
    \/ \E outcome \in SaveOutcomes(FALSE) : ValidSave(outcome)

Spec == Init /\ [][Next]_vars

-----------------------------------------------------------------------------
(* Properties                                                              *)

\* The catalog sets that meet both preconditions of processing, stated on the
\* catalog alone.
Processable(k) ==
    /\ k \in DOMAIN tex_inputs
    /\ tex_inputs[k].tr.srv # NULL
    /\ \A j \in DOMAIN tex_inputs[k].colors :
          /\ tex_inputs[k].colors[j].width = tex_inputs[k].tr.width
          /\ tex_inputs[k].colors[j].height = tex_inputs[k].tr.height

\* The bake dispatches issued so far for set k, in order.
BakeDispatches(k) ==
    SelectSeq(dispatches, LAMBDA d : d.key = k /\ d.at = "dispatch")

\* Coefficient c of sample j of set k at texel t, from the set's own data.
Contribution(k, j, c, t) ==
    BakeCoeff(c, t,
              [s \in SrvSlots |-> CASE s = 0 -> tex_inputs[k].colors[j].srv
                                    [] s = 1 -> tex_inputs[k].tr.srv
                                    [] OTHER -> NULL],
              [light_dir |-> tex_inputs[k].colors[j].light_direction,
               weight    |-> <<1, Len(tex_inputs[k].colors)>>,
               face      |-> tex_inputs[k].face])

RECURSIVE ContributionSum(_, _, _, _)
\* The sum of coefficient c at texel t over samples 1..n of set k.
ContributionSum(k, n, c, t) ==
    IF n = 0 THEN RZero
    ELSE RAdd(ContributionSum(k, n - 1, c, t), Contribution(k, n, c, t))

\* C1: for every processed set the accumulators start at zero, one bake
\* dispatch is issued per sample in catalog order, and when the accumulators
\* are captured every texel of accumulator i holds, in component c, the sum
\* over the set's samples of coefficient 3i+c.
C1_AccumulatorsHoldSampleSum ==
    /\ pc = "set_bake" =>
          \A i \in 0..2 : \A t \in DOMAIN tex_sh_coeffs[i].px :
              tex_sh_coeffs[i].px[t] = <<RZero, RZero, RZero>>
    /\ pc = "save" =>
          /\ Len(BakeDispatches(key)) = Len(tex_inputs[key].colors)
          /\ \A j \in DOMAIN tex_inputs[key].colors :
                BakeDispatches(key)[j].srv[0] = tex_inputs[key].colors[j].srv
          /\ \A i \in 0..2 : \A t \in Texels(tex_inputs[key].tr.width, tex_inputs[key].tr.height) :
                \A c \in 1..3 :
                    tex_sh_coeffs[i].px[t][c]
                        = ContributionSum(key, Len(tex_inputs[key].colors), 3 * i + c - 1, t)

\* C2: a bake dispatch adds coefficients 3i, 3i+1, 3i+2 of the sample into
\* the accumulator the host bound at output slot i, at every texel.
C2_DispatchWritesBoundOutputs ==
    [][pc = "dispatch" =>
          \A i \in 0..2 : \A t \in DOMAIN tex_sh_coeffs[i].px : \A c \in 1..3 :
              /\ cs_uav[i] = tex_sh_coeffs[i].id
              /\ tex_sh_coeffs'[i].px[t][c]
                    = RAdd(tex_sh_coeffs[i].px[t][c],
                           BakeCoeff(3 * i + c - 1, t, cs_srv, common_buffer.data))]_vars

\* Keys the process loop has reached.
Begun == {begun[i] : i \in DOMAIN begun}

\* Files on disk written for set k.
FilesFor(k) == {p \in DOMAIN files : files[p].key = k}

\* Set k was passed over: nothing allocated, dispatched or written for it,
\* and while it is the current set the loop is back at its head (or the run
\* has returned S_OK).
PassedOver(k) ==
    /\ \A i \in 0..2 : tex_sh_coeffs[i].id # "sh" \o ToString(i) \o ":" \o k
    /\ \A n \in DOMAIN dispatches : dispatches[n].key # k
    /\ FilesFor(k) = {}
    /\ key = k => \/ pc = "process" /\ exit_status = "running"
                  \/ pc = "exit" /\ exit_status = "S_OK"

\* A catalog set with a transmittance image and a sample of another size.
HasOddSample(k) ==
    /\ tex_inputs[k].tr.srv # NULL
    /\ \E j \in DOMAIN tex_inputs[k].colors :
          \/ tex_inputs[k].colors[j].width # tex_inputs[k].tr.width
          \/ tex_inputs[k].colors[j].height # tex_inputs[k].tr.height

\* C3: a set with a transmittance image and a sample whose width or height
\* differs from it is rejected whole: no dispatch, no file, a warning naming
\* the set, and the run goes on.
C3_MismatchedSetRejected ==
    \A k \in DOMAIN tex_inputs :
        HasOddSample(k) =>
            /\ PassedOver(k)
            /\ k \in Begun => [level |-> "warn", what |-> "sizes", subject |-> k] \in log

\* A mismatched set that also holds a sample of the right size was rejected,
\* a later set was processed and the run returned S_OK.
C3_Witness ==
    /\ exit_status = "S_OK"
    /\ \E m \in DOMAIN begun : \E n \in DOMAIN begun :
          /\ m < n
          /\ HasOddSample(begun[m])
          /\ \E j \in DOMAIN tex_inputs[begun[m]].colors :
                /\ tex_inputs[begun[m]].colors[j].width = tex_inputs[begun[m]].tr.width
                /\ tex_inputs[begun[m]].colors[j].height = tex_inputs[begun[m]].tr.height
          /\ FilesFor(begun[n]) # {}

\* C4: a set with radiance samples and no transmittance image is abandoned
\* before any accumulator is allocated or any dispatch issued: no file, a
\* warning, and the run goes on.
C4_NoTransmittanceSetAbandoned ==
    \A k \in DOMAIN tex_inputs :
        (tex_inputs[k].tr.srv = NULL /\ Len(tex_inputs[k].colors) >= 1) =>
            /\ PassedOver(k)
            /\ k \in Begun =>
                  [level |-> "warn", what |-> "no_transmittance", subject |-> k] \in log

\* A set without transmittance was abandoned, a later set was processed and
\* the run returned S_OK.
C4_Witness ==
    /\ exit_status = "S_OK"
    /\ \E m \in DOMAIN begun : \E n \in DOMAIN begun :
          /\ m < n
          /\ tex_inputs[begun[m]].tr.srv = NULL
          /\ Len(tex_inputs[begun[m]].colors) >= 1
          /\ FilesFor(begun[n]) # {}

\* The accumulator files of set k.
AccumulatorFiles(k) == {"output/" \o k \o "_sh" \o ToString(i) \o ".dds" : i \in 0..2}

\* The directions cb_data can hold while set k is processed.
DirectionsOf(k) ==
    {<<0, 0, 0>>} \cup
        {tex_inputs[k].colors[j].light_direction : j \in DOMAIN tex_inputs[k].colors}

\* The names a validation file of set k can have.
ValidationFiles(k) ==
    {"validation/" \o k \o "_" \o Fmt2(d[1]) \o "_" \o Fmt2(d[2]) \o "_" \o Fmt2(d[3])
        \o "_re.dds" : d \in DirectionsOf(k)}

\* C5: every file written belongs to a catalog set that meets both
\* preconditions and is one of its accumulator files or, with a validation
\* directory, its validation file; a run that returns S_OK has written, for
\* every such set, the three accumulator files, and one validation file
\* exactly when a validation directory was configured.
C5_FilesWritten ==
    /\ \A p \in DOMAIN files :
          /\ Processable(files[p].key)
          /\ \/ p \in AccumulatorFiles(files[p].key)
             \/ validation_dir /\ p \in ValidationFiles(files[p].key)
    /\ exit_status = "S_OK" =>
          \A k \in DOMAIN tex_inputs :
              Processable(k) =>
                  /\ AccumulatorFiles(k) \subseteq FilesFor(k)
                  /\ Cardinality(FilesFor(k) \ AccumulatorFiles(k))
                        = IF validation_dir THEN 1 ELSE 0

\* A run with a validation directory returned S_OK with one set processed
\* and another abandoned.
C5_Witness ==
    /\ exit_status = "S_OK"
    /\ validation_dir
    /\ \E k \in DOMAIN tex_inputs : Processable(k) /\ Cardinality(FilesFor(k)) = 4
    /\ \E k \in DOMAIN tex_inputs : ~Processable(k) /\ k \in Begun

\* The direction of the last radiance sample of set k.
LastDirection(k) == tex_inputs[k].colors[Len(tex_inputs[k].colors)].light_direction

BoundPositions ==
    {"bind_uav", "dispatch", "clear_srv", "clear_uav", "valid_bind_srv",
     "valid_set_shader", "valid_dispatch", "valid_clear_uav", "valid_clear_srv"}

\* C7: outside a bind .. clear window no image is bound; a bake dispatch runs
\* with exactly the sample, the transmittance and the three accumulators
\* bound, the validation dispatch with the accumulators and the transmittance
\* as inputs and the validation image as output; no image is ever bound as
\* input and as output at once.
C7_BindingsClearedAfterDispatch ==
    /\ pc \notin BoundPositions => (cs_srv = NoSrvs /\ cs_uav = NoUavs)
    /\ \A s \in SrvSlots : \A u \in UavSlots : cs_srv[s] # NULL => cs_srv[s] # cs_uav[u]
    /\ \A n \in DOMAIN dispatches :
          LET d == dispatches[n]
              set == tex_inputs[d.key]
              acc == [i \in 0..2 |-> "sh" \o ToString(i) \o ":" \o d.key]
          IN IF d.at = "dispatch"
             THEN /\ d.srv = [s \in SrvSlots |->
                                CASE s = 0 -> set.colors[d.sample].srv
                                  [] s = 1 -> set.tr.srv
                                  [] OTHER -> NULL]
                  /\ d.uav = acc
             ELSE /\ d.srv = [s \in SrvSlots |-> IF s < 3 THEN acc[s] ELSE set.tr.srv]
                  /\ d.uav = [u \in UavSlots |-> IF u = 0 THEN "valid:" \o d.key ELSE NULL]

\* The validation pass of a set ran after two bake dispatches of that set.
C7_Witness ==
    /\ pc = "valid_save"
    /\ Len(BakeDispatches(key)) >= 2
    /\ dispatches[Len(dispatches)].at = "valid_dispatch"

\* C8: once a save has failed the run is over and did not succeed: the
\* process is terminated, no step follows, and the file whose save failed
\* does not exist.
C8_SaveFailureAbortsRun ==
    (\E e \in log : e.level = "error") =>
        /\ pc = "exit"
        /\ exit_status = "terminated"
        /\ ~ENABLED Next
        /\ IF valid_tex.id # NULL
           THEN \A p \in FilesFor(key) : files[p].format # "r"
           ELSE "output/" \o key \o "_sh" \o ToString(si) \o ".dds" \notin DOMAIN files

\* A save failed after files had been written, with sets still to process.
C8_Witness ==
    /\ \E e \in log : e.level = "error"
    /\ todo # {}
    /\ DOMAIN files # {}

\* The face tokens of the filename grammars.
GrammarFaces == {"+x", "-x", "+y", "-y", "+z"}

\* File f has one of the two filename forms, whatever its face token.
HasGrammarForm(f) ==
    \/ Len(f.tokens) >= 3 /\ f.tokens[Len(f.tokens)] = "tr"
    \/ Len(f.tokens) >= 5 /\ \A i \in 0..2 : f.tokens[Len(f.tokens) - i] \in DOMAIN DecimalValue

\* The face token of a file that has one of the two forms.
FaceToken(f) ==
    IF f.tokens[Len(f.tokens)] = "tr" THEN f.tokens[Len(f.tokens) - 1]
    ELSE f.tokens[Len(f.tokens) - 3]

\* File f matches one of the two grammars, face token included.
MatchesGrammar(f) == HasGrammarForm(f) /\ FaceToken(f) \in GrammarFaces

\* C9: visiting an image file that matches neither grammar (the face token
\* being one of +x, -x, +y, -y, +z), or that cannot be read or is not a 2D
\* image, leaves the catalog as it was, logs a warning naming the file and
\* goes on reading.
C9_BadFileSkipped ==
    [][\A f \in visited' \ visited :
          (f.ext = ".dds" /\ (~MatchesGrammar(f) \/ f.load # "ok")) =>
              /\ tex_inputs' = tex_inputs
              /\ \E e \in log' \ log : e.level = "warn" /\ e.subject = FileName(f)
              /\ pc' = "read"
              /\ exit_status' = "running"]_vars

\* The face index of each face token.
FaceIndex == [s \in GrammarFaces |->
                CASE s = "+x" -> 0 [] s = "-x" -> 1 [] s = "+y" -> 2
                  [] s = "-y" -> 3 [] s = "+z" -> 4]

RECURSIVE WeightSum(_)
\* The sum of the weights the dispatches of s read from the constant buffer.
WeightSum(s) ==
    IF s = <<>> THEN RZero ELSE RAdd(Head(s).read.weight, WeightSum(Tail(s)))

\* C11: every bake dispatch of a set with N samples reads the weight 1/N of
\* that set from a constant buffer that has been written, a set never gets
\* more than N bake dispatches, and once a set with N >= 1 has had all N the
\* weights they read sum to 1.
C11_WeightIsOneOverSampleCount ==
    /\ \A n \in DOMAIN dispatches :
          dispatches[n].at = "dispatch" =>
              /\ dispatches[n].cb.written
              /\ dispatches[n].cb.data.weight =
                    <<1, Len(tex_inputs[dispatches[n].key].colors)>>
              /\ dispatches[n].read = dispatches[n].cb.data
    /\ \A k \in DOMAIN tex_inputs :
          /\ Len(BakeDispatches(k)) <= Len(tex_inputs[k].colors)
          /\ (Len(tex_inputs[k].colors) >= 1
                 /\ Len(BakeDispatches(k)) = Len(tex_inputs[k].colors)) =>
                WeightSum(BakeDispatches(k)) = <<1, 1>>

\* Two sets with different sample counts, one of them with two samples, have
\* both had all their bake dispatches.
C11_Witness ==
    \E k1, k2 \in DOMAIN tex_inputs :
        /\ Len(tex_inputs[k1].colors) >= 2
        /\ Len(tex_inputs[k2].colors) >= 1
        /\ Len(tex_inputs[k1].colors) # Len(tex_inputs[k2].colors)
        /\ Len(BakeDispatches(k1)) = Len(tex_inputs[k1].colors)
        /\ Len(BakeDispatches(k2)) = Len(tex_inputs[k2].colors)

\* C12: every per-sample dispatch runs with the bake kernel selected and
\* every validation dispatch with the validation kernel selected.
C12_DispatchRunsSelectedKernel ==
    \A n \in DOMAIN dispatches :
        /\ dispatches[n].at = "dispatch" => dispatches[n].shader = "bake_cs"
        /\ dispatches[n].at = "valid_dispatch" => dispatches[n].shader = "validation_cs"

\* A bake dispatch of one set was issued after the validation dispatch of
\* another set.
C12_Witness ==
    \E m, n \in DOMAIN dispatches :
        /\ m < n
        /\ dispatches[m].at = "valid_dispatch"
        /\ dispatches[n].at = "dispatch"
        /\ dispatches[m].key # dispatches[n].key

\* C13: at every validation dispatch the constant buffer has been written,
\* its last writer is a sample of the set being validated (the latest bake
\* dispatch before it belongs to the same set and read the same contents), and
\* the direction the kernel read is the one formatted into the set's
\* validation file name; this for every set, a set without samples included.
C13_ValidationBufferFromSameSet ==
    /\ \A n \in DOMAIN dispatches :
          dispatches[n].at = "valid_dispatch" =>
              /\ dispatches[n].cb.written
              /\ \E m \in 1..(n - 1) :
                    /\ dispatches[m].at = "dispatch"
                    /\ dispatches[m].key = dispatches[n].key
                    /\ dispatches[m].cb = dispatches[n].cb
                    /\ \A j \in (m + 1)..(n - 1) : dispatches[j].at # "dispatch"
    /\ pc = "valid_save" =>
          /\ common_buffer.written
          /\ dispatches[Len(dispatches)].at = "valid_dispatch"
          /\ dispatches[Len(dispatches)].key = key
          /\ cb_data.light_dir = dispatches[Len(dispatches)].read.light_dir

====
